---- MODULE Spec2Model ----
(***************************************************************************)
(* A model of pyke/kepler_prf.py: the KeplerPRF model (construction from   *)
(* five calibration samples, evaluation on the detector footprint) and the *)
(* KeplerPRFPhotometry.do_photometry frame loop.                           *)
(*                                                                         *)
(* Numbers.  Floating point values are finite fixed-point integers:        *)
(*   - detector coordinates are in half pixels (column 3 is 6, the pixel   *)
(*     centre 3.5 is 7), because every coordinate the code forms from      *)
(*     integer column/row is an integer or a half-integer;                 *)
(*   - PRF weights are in units of 1e-6 (min_prf_weight is 1);             *)
(*   - un-normalised PRF values are in units of 1/Unit;                    *)
(*   - normalised PRF values are in units of 2^-FracBits.                  *)
(* n-dimensional arrays are records [shape, data] with row-major data, as  *)
(* numpy stores them.                                                      *)
(***************************************************************************)
EXTENDS Integers, Sequences, FiniteSets, TLC

\* ------------------------------------------------------------------ bounds
\* sample grids are PRFDim x PRFDim
PRFDim == 2
\* the footprint has 1..MaxShape rows and columns
MaxShape == 2
\* sample amplitudes are 0..GridMax
GridMax == 1
\* un-normalised PRF values are multiples of 1/Unit
Unit == 4
\* normalised PRF values are multiples of 2^-FracBits
FracBits == 20
\* a target pixel file has 0..MaxFrames cadences
MaxFrames == 2

\* ------------------------------------------------------- program constants
n_hdu == 5
\* 1e-6, in units of 1e-6
min_prf_weight == 1

\* ------------------------------------------------------------------ arrays
RECURSIVE Prod(_)
Prod(s) == IF s = <<>> THEN 1 ELSE Head(s) * Prod(Tail(s))

RECURSIVE SumSeq(_)
SumSeq(s) == IF s = <<>> THEN 0 ELSE Head(s) + SumSeq(Tail(s))

Abs(x) == IF x < 0 THEN -x ELSE x

\* np.zeros(shape)
Zeros(shp) == [shape |-> shp, data |-> [k \in 1..Prod(shp) |-> 0]]

\* a[r, c] of a 2-d array, 0-based as in numpy
At(a, r, c) == a.data[r * a.shape[2] + c + 1]

\* the 0-based indices of an nr x nc array
Indices(nr, nc) == (0..(nr - 1)) \X (0..(nc - 1))

\* a 2-d array from a function of its 0-based indices
Array2(nr, nc, f) ==
    [shape |-> <<nr, nc>>,
     data |-> [k \in 1..(nr * nc) |-> f[<<(k - 1) \div nc, (k - 1) % nc>>]]]

\* ------------------------------------------------------------- file system
\* utils.channel_to_module_output: the 84 channels onto 21 modules x 4 outputs
Modules == <<2, 3, 4, 6, 7, 8, 9, 10, 11, 12, 13, 14, 15, 16, 17, 18, 19, 20, 22, 23, 24>>
channel_to_module_output(ch) == <<Modules[((ch - 1) \div 4) + 1], ((ch - 1) % 4) + 1>>

\* prefix + str(module) + '.' + str(output) + '*_prf.fits': the characters
\* before the '*' (the prefix "kplr" itself left out), as a tuple of digits
prf_file_path(ch) ==
    LET mo == channel_to_module_output(ch)
        module == mo[1]
        output == mo[2]
    IN  IF module < 10 THEN <<0, module, output>>
        ELSE <<module \div 10, module % 10, output>>

\* the calibration files of prf_files_dir, named as prf_file_path names them
PrfFiles == {<<0, 2, 1>>, <<1, 3, 2>>}
glob(pattern) == {f \in PrfFiles : f = pattern}

Channels == {1, 2, 42}

(***************************************************************************)
(* The content of a calibration file: five samples.  Sample i sits at      *)
(* (crval1p[i], crval2p[i]) (half pixels): the centre and the four corners *)
(* of a square around (cx, cy), as the Kepler samples of a channel do, so  *)
(* the five positions differ.  Its grid holds amp[i] everywhere and        *)
(* amp[i] + 1 on the diagonal: every grid is non-negative with a positive  *)
(* sum, as a measured response is.                                         *)
(***************************************************************************)
Offsets == << <<0, 0>>, <<-1, -1>>, <<-1, 1>>, <<1, -1>>, <<1, 1>> >>

SampleGrid(a) ==
    Array2(PRFDim, PRFDim,
           [rc \in Indices(PRFDim, PRFDim) |-> IF rc[1] = rc[2] THEN a + 1 ELSE a])

Calibration(amp, cx, cy, spread, c1, c2) ==
    [prfn    |-> [i \in 1..n_hdu |-> SampleGrid(amp[i])],
     crval1p |-> [i \in 1..n_hdu |-> cx + spread * Offsets[i][1]],
     crval2p |-> [i \in 1..n_hdu |-> cy + spread * Offsets[i][2]],
     cdelt1p |-> [i \in 1..n_hdu |-> c1],
     cdelt2p |-> [i \in 1..n_hdu |-> c2]]

Amps == [1..n_hdu -> 0..GridMax]
Spreads == {1, 2}
Cdelts == {1, 2}

CalSet ==
    {Calibration(a, 7, 9, s, c, c) : a \in Amps, s \in Spreads, c \in Cdelts}
    \cup {Calibration([i \in 1..n_hdu |-> 0], 7, 9, 2, 1, 2)}

\* ---------------------------------------------------------------- numerics
RECURSIVE ISqrtIn(_, _, _)
ISqrtIn(x, lo, hi) ==
    IF lo >= hi THEN lo
    ELSE LET mid == (lo + hi + 1) \div 2
         IN  IF mid * mid <= x THEN ISqrtIn(x, mid, hi) ELSE ISqrtIn(x, lo, mid - 1)

\* floor(sqrt(x)), 0 <= x < 2^31
ISqrt(x) == ISqrtIn(x, 0, 46340)

\* math.sqrt(dc ** 2 + dr ** 2) of half-pixel offsets, in units of 1e-6
\* (resolved to 0.0005 pixel)
Distance(dc, dr) == ISqrt((dc * dc + dr * dr) * 1000000) * 500

\* lines 212-215: the weight of a sample at (crval1, crval2) for a target
\* whose reference point is (ref_column, ref_row)
Weight(ref_column, ref_row, crval1, crval2) ==
    LET w == Distance(ref_column - crval1, ref_row - crval2)
    IN  IF w < min_prf_weight THEN min_prf_weight ELSE w

\* the blend weighted by distance instead of inverse distance
AccumulateTimes(prf, grid, w) ==
    [prf EXCEPT !.data = [k \in DOMAIN prf.data |-> prf.data[k] + grid.data[k] * w]]

\* line 216: prf += prfn[i] / prfWeight[i], elementwise, in units of 1/Unit
Accumulate(prf, grid, w) ==
    [prf EXCEPT !.data =
        [k \in DOMAIN prf.data |-> prf.data[k] + ((grid.data[k] * Unit * 1000000) \div w)]]

RECURSIVE FixDivIn(_, _, _, _)
FixDivIn(q, r, d, bits) ==
    IF bits = 0 THEN q
    ELSE FixDivIn(2 * q + ((2 * r) \div d), (2 * r) % d, d, bits - 1)

\* floor(a * 2^FracBits / d), for 0 <= a and 0 < d < 2^30
FixDiv(a, d) == FixDivIn(a \div d, a % d, d, FracBits)

\* 1.0 in units of 2^-FracBits
One == FixDiv(1, 1)

\* the kernel normalised to unit sum, the pixel scales left out
NormalizeBySum(prf, c1, c2) ==
    LET d == SumSeq(prf.data)
    IN  [prf EXCEPT !.data = [k \in DOMAIN prf.data |-> FixDiv(prf.data[k], d)]]

\* line 217: prf /= (np.nansum(prf) * cdelt1p[0] * cdelt2p[0])
Normalize(prf, c1, c2) ==
    LET d == SumSeq(prf.data) * c1 * c2
    IN  [prf EXCEPT !.data = [k \in DOMAIN prf.data |-> FixDiv(prf.data[k], d)]]

\* lines 200-203: (np.arange(0.5, n + 0.5) - n / 2) * cdelt, in half pixels
PRFAxis(n, cdelt) == [j \in 1..n |-> (2 * j - 1 - n) * cdelt]

\* lines 209-210: column + (coldim - 1.) / 2., in half pixels
RefCoord(start, dim) == 2 * start + dim - 1

\* lines 220-221: np.arange(start + .5, start + dim + .5), in half pixels
PixelCentres(start, dim) == [j \in 1..dim |-> 2 * start + 2 * j - 1]

\* line 222: the interpolant over (PRFcol, PRFrow, prf)
RectBivariateSpline(x, y, z) == [x |-> x, y |-> y, z |-> z]

\* lines 211-216, the loop run to its end over samples 1..k
RECURSIVE FusedUpTo(_, _, _, _)
FusedUpTo(c, ref_column, ref_row, k) ==
    IF k = 0 THEN Zeros(c.prfn[1].shape)
    ELSE Accumulate(FusedUpTo(c, ref_column, ref_row, k - 1), c.prfn[k],
                    Weight(ref_column, ref_row, c.crval1p[k], c.crval2p[k]))

\* lines 217-224 of _prepare_prf: what it returns for the accumulated prf
PrepareResult(shp, col, rw, c, fused) ==
    [col_coord   |-> PixelCentres(col, shp[2]),
     row_coord   |-> PixelCentres(rw, shp[1]),
     interpolate |-> RectBivariateSpline(
                        PRFAxis(c.prfn[1].shape[2], c.cdelt1p[1]),
                        PRFAxis(c.prfn[1].shape[1], c.cdelt2p[1]),
                        Normalize(fused, c.cdelt1p[1], c.cdelt2p[1]))]

\* _prepare_prf as a whole, for a file that exists
prepare_prf(shp, col, rw, c) ==
    PrepareResult(shp, col, rw, c,
        FusedUpTo(c, RefCoord(col, shp[2]), RefCoord(rw, shp[1]), n_hdu))

\* ---------------------------------------------------------------- evaluate
\* math.cos / math.sin of a rotation given in quarter turns
Cos(q) == <<1, 0, -1, 0>>[(q % 4) + 1]
Sin(q) == <<0, 1, 0, -1>>[(q % 4) + 1]

\* the index of the knot nearest to v (the spline, reduced to its knots)
Nearest(knots, v) ==
    CHOOSE j \in DOMAIN knots :
        \A k \in DOMAIN knots :
            \/ Abs(knots[j] - v) < Abs(knots[k] - v)
            \/ (Abs(knots[j] - v) = Abs(knots[k] - v) /\ j <= k)

\* interpolate(xs, ys): the spline on the grid xs x ys; xs runs along the
\* first axis of z and is located among the knots x, ys among the knots y
Interp(f, xs, ys) ==
    Array2(Len(xs), Len(ys),
           [ab \in Indices(Len(xs), Len(ys)) |->
               At(f.z, Nearest(f.x, xs[ab[1] + 1]) - 1, Nearest(f.y, ys[ab[2] + 1]) - 1)])

\* lines 156-159
DeltaCol(obj, centroid_col) == [j \in DOMAIN obj.col_coord |-> obj.col_coord[j] - centroid_col]
DeltaRow(obj, centroid_row) == [j \in DOMAIN obj.row_coord |-> obj.row_coord[j] - centroid_row]
RotCol(delta_col, delta_row, rot) ==
    [j \in DOMAIN delta_col |-> delta_col[j] * Cos(rot) - delta_row[1] * Sin(rot)]
RotRow(delta_col, delta_row, rot) ==
    [j \in DOMAIN delta_row |-> delta_col[1] * Sin(rot) + delta_row[j] * Cos(rot)]

Scale(v, k) == [j \in DOMAIN v |-> v[j] * k]

\* scalar * array
Times(k, a) == [a EXCEPT !.data = [j \in DOMAIN a.data |-> k * a.data[j]]]

\* a call that shows the rotated offsets in use, as a full rotation would
prf_to_detector_rotated(obj, flux, centroid_col, centroid_row, stretch_col, stretch_row, rotation) ==
    LET delta_col == DeltaCol(obj, centroid_col)
        delta_row == DeltaRow(obj, centroid_row)
        rot_col == RotCol(delta_col, delta_row, rotation)
        rot_row == RotRow(delta_col, delta_row, rotation)
    IN  Times(flux, Interp(obj.interpolate, Scale(rot_row, stretch_row),
                                             Scale(rot_col, stretch_col)))

\* a call that adds the flux to the kernel instead of scaling the kernel
prf_to_detector_added(obj, flux, centroid_col, centroid_row, stretch_col, stretch_row, rotation) ==
    LET k == Interp(obj.interpolate, Scale(DeltaRow(obj, centroid_row), stretch_row),
                                     Scale(DeltaCol(obj, centroid_col), stretch_col))
    IN  [k EXCEPT !.data = [j \in DOMAIN k.data |-> flux + k.data[j]]]

\* lines 154-162: the array prf_to_detector returns (and caches)
prf_to_detector(obj, flux, centroid_col, centroid_row, stretch_col, stretch_row, rotation) ==
    LET cos_rot == Cos(rotation)
        sin_rot == Sin(rotation)
        delta_col == DeltaCol(obj, centroid_col)
        delta_row == DeltaRow(obj, centroid_row)
        rot_col == RotCol(delta_col, delta_row, rotation)
        rot_row == RotRow(delta_col, delta_row, rotation)
    IN  Times(flux, Interp(obj.interpolate, Scale(delta_row, stretch_row),
                                             Scale(delta_col, stretch_col)))

\* ------------------------------------------------------------------- state
VARIABLES
    \* KeplerPRF: the object under construction or in use
    self,           \* its attributes' values
    attrs,          \* the names of the attributes set on it so far
    pc,             \* "new", "fuse" (inside the loop of _prepare_prf), "ready", "raised"
    exc,            \* the exception the constructor raised, "" if none
    cal,            \* the content of the calibration file read (lines 192-199)
    prfWeight,      \* local of _prepare_prf
    prf,            \* local of _prepare_prf
    i,              \* local of _prepare_prf: the loop index of lines 211-216
    last_call,      \* the most recent prf_to_detector call: arguments and result
    ref_call,       \* one earlier prf_to_detector call, kept for comparison
    \* KeplerPRFPhotometry and the running do_photometry call
    ph_pc,          \* "idle", "loop", "returned", "raised"
    ph_exc,         \* the exception do_photometry raised, "" if none
    tpf,            \* the target pixel file: [time, flux, shape]
    supplied,       \* the initial_guesses argument (<<>> for None)
    initial_guesses,\* local of do_photometry
    t,              \* local of do_photometry: the loop index
    opt_params, residuals, uncertainties,
    fits            \* the calls logL.fit received so far: [frame, seed]

prf_vars == <<self, attrs, pc, exc, cal, prfWeight, prf, i>>
call_vars == <<last_call, ref_call>>
ph_vars == <<ph_pc, ph_exc, tpf, supplied, initial_guesses, t, opt_params, residuals,
             uncertainties, fits>>
vars == <<self, attrs, pc, exc, cal, prfWeight, prf, i, last_call, ref_call,
          ph_pc, ph_exc, tpf, supplied, initial_guesses, t, opt_params, residuals,
          uncertainties, fits>>

NoArray == Zeros(<<0, 0>>)
NoCall == [args |-> <<>>, result |-> NoArray]
NoCal == [prfn |-> <<>>, crval1p |-> <<>>, crval2p |-> <<>>, cdelt1p |-> <<>>, cdelt2p |-> <<>>]
NoSelf ==
    [channel |-> 0, shape |-> <<0, 0>>, column |-> 0, row |-> 0,
     col_coord |-> <<>>, row_coord |-> <<>>,
     interpolate |-> RectBivariateSpline(<<>>, <<>>, NoArray),
     prf_model |-> NoArray]

FixedAttrs == {"prf_files_dir", "channel", "shape", "column", "row"}
BuiltAttrs == {"col_coord", "row_coord", "interpolate"}

\* the fixed state of a model: everything but the cached array
Fixed(obj) == [a \in {"channel", "shape", "column", "row", "col_coord", "row_coord", "interpolate"}
                 |-> obj[a]]

Shapes == (1..MaxShape) \X (1..MaxShape)
Columns == {2, 3}
Rows == {4}

PRFIdle ==
    /\ self = NoSelf /\ attrs = {} /\ pc = "new" /\ exc = ""
    /\ cal = NoCal /\ prfWeight = <<>> /\ prf = NoArray /\ i = 0

CallsIdle == last_call = NoCall /\ ref_call = NoCall

PhIdle ==
    /\ ph_pc = "idle" /\ ph_exc = ""
    /\ tpf = [time |-> 0, flux |-> Zeros(<<0, 0, 0>>), shape |-> <<0, 0, 0>>]
    /\ supplied = <<>> /\ initial_guesses = <<>> /\ t = 0
    /\ opt_params = <<>> /\ residuals = <<>> /\ uncertainties = <<>> /\ fits = <<>>

\* --------------------------------------------------- KeplerPRF construction
\* a constructor that falls back to the first calibration file of the directory
ConstructAnyFile(ch, shp, col, rw) ==
    /\ pc = "new"
    /\ glob(prf_file_path(ch)) = {}
    /\ self' = [self EXCEPT !.channel = ch, !.shape = shp, !.column = col, !.row = rw]
    /\ attrs' = FixedAttrs
    /\ cal' = Calibration([k \in 1..n_hdu |-> 0], 7, 9, 1, 1, 1)
    /\ prf' = Zeros(<<PRFDim, PRFDim>>)
    /\ prfWeight' = [k \in 1..n_hdu |-> 0]
    /\ i' = 0
    /\ pc' = "fuse"
    /\ exc' = ""

\* lines 126-131 and 178-189 when glob matches nothing: [0] of the empty list
ConstructNoFile(ch, shp, col, rw) ==
    /\ pc = "new"
    /\ glob(prf_file_path(ch)) = {}
    /\ self' = [self EXCEPT !.channel = ch, !.shape = shp, !.column = col, !.row = rw]
    /\ attrs' = FixedAttrs
    /\ pc' = "raised"
    /\ exc' = "IndexError"
    /\ UNCHANGED <<cal, prfWeight, prf, i>>

\* lines 126-131 and 178-210: the file is found and read, the loop is entered
ConstructRead(ch, shp, col, rw, c) ==
    /\ pc = "new"
    /\ glob(prf_file_path(ch)) # {}
    /\ self' = [self EXCEPT !.channel = ch, !.shape = shp, !.column = col, !.row = rw]
    /\ attrs' = FixedAttrs
    /\ cal' = c
    /\ prf' = Zeros(c.prfn[1].shape)
    /\ prfWeight' = [k \in 1..n_hdu |-> 0]
    /\ i' = 0
    /\ pc' = "fuse"
    /\ exc' = ""

ref_column == RefCoord(self.column, self.shape[2])
ref_row == RefCoord(self.row, self.shape[1])

\* lines 211-216: one pass of the loop (i is 0-based, as in the code)
FuseStep ==
    /\ pc = "fuse"
    /\ i < n_hdu
    /\ LET w == Weight(ref_column, ref_row, cal.crval1p[i + 1], cal.crval2p[i + 1])
       IN  /\ prfWeight' = [prfWeight EXCEPT ![i + 1] = w]
           /\ prf' = Accumulate(prf, cal.prfn[i + 1], w)
    /\ i' = i + 1
    /\ UNCHANGED <<self, attrs, pc, exc, cal>>

\* lines 217-224 and 132: normalise, build the interpolant, set the attributes
ConstructFinish ==
    /\ pc = "fuse"
    /\ i = n_hdu
    /\ LET r == PrepareResult(self.shape, self.column, self.row, cal, prf)
       IN  /\ self' = [self EXCEPT !.col_coord = r.col_coord, !.row_coord = r.row_coord,
                                   !.interpolate = r.interpolate]
           /\ prf' = r.interpolate.z
    /\ attrs' = attrs \cup BuiltAttrs
    /\ pc' = "ready"
    /\ UNCHANGED <<exc, cal, prfWeight, i>>

Construct ==
    /\ pc = "new"
    /\ \E ch \in Channels, shp \in Shapes, col \in Columns, rw \in Rows :
        \/ ConstructNoFile(ch, shp, col, rw)
        \/ \E c \in CalSet : ConstructRead(ch, shp, col, rw, c)

InitPRF == PRFIdle /\ CallsIdle /\ PhIdle

NextPRF ==
    \/ Construct /\ UNCHANGED call_vars /\ UNCHANGED ph_vars
    \/ FuseStep /\ UNCHANGED call_vars /\ UNCHANGED ph_vars
    \/ ConstructFinish /\ UNCHANGED call_vars /\ UNCHANGED ph_vars

SpecPRF == InitPRF /\ [][NextPRF]_vars

\* ------------------------------------------------ evaluate / prf_to_detector
Fluxes == {0, 2}
Centroids == {<<5, 9>>, <<8, 10>>}
Stretches == {<<1, 1>>, <<2, 1>>, <<1, 2>>}
Rotations == {0, 1, 2}

\* a call that also moves the footprint to the centroid it was given
PrfToDetectorCallMoving(flux, centroid_col, centroid_row, stretch_col, stretch_row, rotation) ==
    /\ pc = "ready"
    /\ LET r == prf_to_detector(self, flux, centroid_col, centroid_row,
                                stretch_col, stretch_row, rotation)
       IN  /\ self' = [self EXCEPT !.prf_model = r,
                                   !.col_coord = DeltaCol(self, centroid_col)]
           /\ last_call' = [args |-> <<flux, centroid_col, centroid_row,
                                       stretch_col, stretch_row, rotation>>,
                            result |-> r]
           /\ ref_call' \in IF ref_call = NoCall THEN {NoCall, last_call'} ELSE {ref_call}
    /\ attrs' = attrs \cup {"prf_model"}
    /\ UNCHANGED <<pc, exc, cal, prfWeight, prf, i>>

\* lines 134-165: evaluate(*args) is prf_to_detector(*args); the array is
\* cached in self.prf_model and returned
PrfToDetectorCall(flux, centroid_col, centroid_row, stretch_col, stretch_row, rotation) ==
    /\ pc = "ready"
    /\ LET r == prf_to_detector(self, flux, centroid_col, centroid_row,
                                stretch_col, stretch_row, rotation)
       IN  /\ self' = [self EXCEPT !.prf_model = r]
           /\ last_call' = [args |-> <<flux, centroid_col, centroid_row,
                                       stretch_col, stretch_row, rotation>>,
                            result |-> r]
           /\ ref_call' \in IF ref_call = NoCall THEN {NoCall, last_call'} ELSE {ref_call}
    /\ attrs' = attrs \cup {"prf_model"}
    /\ UNCHANGED <<pc, exc, cal, prfWeight, prf, i>>

Evaluate ==
    /\ pc = "ready"
    /\ \E flux \in Fluxes, ce \in Centroids, st \in Stretches, rot \in Rotations :
            PrfToDetectorCall(flux, ce[1], ce[2], st[1], st[2], rot)

\* the state KeplerPRF(ch, shp, col, rw) leaves when its file holds c
Constructed(ch, shp, col, rw, c) ==
    LET fused == FusedUpTo(c, RefCoord(col, shp[2]), RefCoord(rw, shp[1]), n_hdu)
        r == PrepareResult(shp, col, rw, c, fused)
    IN  /\ self = [NoSelf EXCEPT !.channel = ch, !.shape = shp, !.column = col, !.row = rw,
                                 !.col_coord = r.col_coord, !.row_coord = r.row_coord,
                                 !.interpolate = r.interpolate]
        /\ attrs = FixedAttrs \cup BuiltAttrs
        /\ pc = "ready" /\ exc = ""
        /\ cal = c
        /\ prfWeight = [k \in 1..n_hdu |->
                          Weight(RefCoord(col, shp[2]), RefCoord(rw, shp[1]),
                                 c.crval1p[k], c.crval2p[k])]
        /\ prf = r.interpolate.z
        /\ i = n_hdu

EvalCals == {Calibration([k \in 1..n_hdu |-> k % 2], 7, 9, 2, 2, 2)}
EvalShapes == {<<1, 2>>, <<2, 1>>, <<2, 2>>}

InitEval ==
    /\ \E shp \in EvalShapes, c \in EvalCals : Constructed(1, shp, 3, 4, c)
    /\ CallsIdle
    /\ PhIdle

NextEval == Evaluate /\ UNCHANGED ph_vars

SpecEval == InitEval /\ [][NextEval]_vars

\* the state the constructor reaches step by step is the state Constructed
\* describes, from which the evaluate calls are explored
ReadyIsConstructed ==
    pc = "ready" => Constructed(self.channel, self.shape, self.column, self.row, cal)

\* ------------------------------------------------------- claims: construction
NoFileFor(ch) == glob(prf_file_path(ch)) = {}

\* C5 as stated: constructing a model for a channel whose pattern matches no
\* calibration file fails with CalibrationNotFound, and no model with axes or
\* interpolant is produced.
C5_FailsWithCalibrationNotFound ==
    (pc # "new" /\ NoFileFor(self.channel)) =>
        /\ pc = "raised"
        /\ exc = "CalibrationNotFound"
        /\ attrs \cap BuiltAttrs = {}

\* C5 amended: constructing a model for a channel whose pattern matches no
\* calibration file fails with the IndexError of indexing the empty glob
\* result, and the construction is aborted: the object never gets col_coord,
\* row_coord or interpolate, and the fusion loop is never entered.
C5_FailsWithIndexError ==
    (pc # "new" /\ NoFileFor(self.channel)) =>
        /\ pc = "raised"
        /\ exc = "IndexError"
        /\ attrs \cap BuiltAttrs = {}
        /\ self.col_coord = <<>> /\ self.row_coord = <<>>
        /\ self.interpolate = NoSelf.interpolate

C5_Witness == pc = "raised" /\ self.channel = 2 /\ NoFileFor(2)

\* sum(fused_grid) * pixel_scale_col * pixel_scale_row, in units of 2^-FracBits
Integral(z, c1, c2) == SumSeq(z.data) * c1 * c2

\* one unit of rounding per cell of the grid
Tolerance(z, c1, c2) == Len(z.data) * c1 * c2

CoLocated(k) == cal.crval1p[k] = ref_column /\ cal.crval2p[k] = ref_row

\* d is g / w, in units of 1/Unit (g a count, w in units of 1e-6)
IsQuotient(d, g, w) == w > 0 /\ d = (g * Unit * 1000000) \div w

C9_Weights ==
    pc \in {"fuse", "ready"} =>
        \A k \in 1..i :
            /\ prfWeight[k] >= min_prf_weight
            /\ CoLocated(k) => prfWeight[k] = min_prf_weight

C9_Contribution ==
    (pc = "fuse" /\ i' = i + 1) =>
        \A k \in DOMAIN prf.data :
            IsQuotient(prf'.data[k] - prf.data[k], cal.prfn[i'].data[k], prfWeight'[i'])

\* C9: during fusion a sample whose reference coordinate equals the target's
\* reference coordinate gets weight exactly 1e-6, every sample's weight is at
\* least 1e-6, and each sample adds grid / weight to the fused sum.
C9_WeightFloorAndContribution == [](C9_Weights) /\ [][C9_Contribution]_vars

C9_Witness ==
    /\ pc = "fuse" /\ i = 2
    /\ CoLocated(1) /\ prfWeight[1] = min_prf_weight
    /\ prfWeight[2] > min_prf_weight
    /\ cal.prfn[2].data[1] > 0
    /\ prf.data[1] > cal.prfn[1].data[1] * Unit * 1000000

\* --------------------------------------------------------- claims: evaluate
C6_CacheIsLastResult ==
    (pc = "ready" /\ last_call # NoCall) => self.prf_model = last_call.result

C6_EqualArgumentsEqualArrays ==
    (ref_call # NoCall /\ ref_call.args = last_call.args) =>
        ref_call.result = last_call.result

C6_Frame ==
    pc = "ready" =>
        /\ Fixed(self') = Fixed(self)
        /\ attrs' \subseteq attrs \cup {"prf_model"}
        /\ attrs \subseteq attrs'

\* C6: over any sequence of evaluate / prf_to_detector calls the model's
\* fixed state (channel, shape, column, row, col_coord, row_coord,
\* interpolant) keeps its value, the only attribute written is the cached
\* array, which equals the array the most recent call returned, and two calls
\* with equal arguments return equal arrays whatever was called in between.
C6_OnlyTheCacheIsWritten ==
    /\ [](C6_CacheIsLastResult /\ C6_EqualArgumentsEqualArrays)
    /\ [][C6_Frame]_vars

C6_Witness ==
    /\ pc = "ready"
    /\ ref_call # NoCall
    /\ ref_call.args = last_call.args
    /\ "prf_model" \in attrs
    /\ \E k \in DOMAIN self.prf_model.data : self.prf_model.data[k] > 0

SameButRotation(a, b) == \A k \in 1..5 : a[k] = b[k]

\* C10: the array evaluate / prf_to_detector returns does not depend on
\* rotation_radians: two calls that differ only in the rotation return equal
\* arrays.
C10_RotationIsIgnored ==
    (ref_call # NoCall /\ last_call # NoCall /\ SameButRotation(ref_call.args, last_call.args)) =>
        ref_call.result = last_call.result

C10_Witness ==
    /\ ref_call # NoCall /\ last_call # NoCall
    /\ SameButRotation(ref_call.args, last_call.args)
    /\ ref_call.args[6] # last_call.args[6]
    /\ ref_call.args[1] > 0
    /\ self.shape = <<2, 2>>
    /\ \E j, k \in DOMAIN last_call.result.data :
          last_call.result.data[j] # last_call.result.data[k]

\* ------------------------------------------- KeplerPRFPhotometry.do_photometry
\* self.prf_model of the photometry object is called (line 90), so it is a
\* callable: here the evaluate of a KeplerPRF built for a 1 x 2 footprint at
\* column 3, row 4.  The optimizer (logL.fit, logL.uncertainties) is external:
\* a fit returns any parameter vector or raises, uncertainties() returns any
\* vector.
PhotShape == <<1, 2>>
PhotPRF ==
    LET r == prepare_prf(PhotShape, 3, 4, Calibration([k \in 1..n_hdu |-> k % 2], 7, 9, 2, 2, 2))
    IN  [NoSelf EXCEPT !.channel = 1, !.shape = PhotShape, !.column = 3, !.row = 4,
                       !.col_coord = r.col_coord, !.row_coord = r.row_coord,
                       !.interpolate = r.interpolate]

\* self.prf_model(*params) with params = (flux, centroid_col, centroid_row)
PhotModel(params) == prf_to_detector(PhotPRF, params[1], params[2], params[3], 1, 1, 0)

\* numpy's a - b, b broadcast along the leading axes of a
Minus(a, b) ==
    [shape |-> a.shape,
     data |-> [k \in DOMAIN a.data |-> a.data[k] - b.data[((k - 1) % Len(b.data)) + 1]]]

\* cube[idx] of a 3-d array, 0-based
Frame(cube, idx) ==
    LET n == cube.shape[2] * cube.shape[3]
    IN  [shape |-> <<cube.shape[2], cube.shape[3]>>,
         data |-> [k \in 1..n |-> cube.data[idx * n + k]]]

\* the pixels of one cadence, and the target pixel files of n cadences
FramePixels == {<<0, 0>>, <<9, 4>>}
Cube(fs) ==
    [shape |-> <<Len(fs), PhotShape[1], PhotShape[2]>>,
     data |-> [k \in 1..(Len(fs) * 2) |-> fs[((k - 1) \div 2) + 1][((k - 1) % 2) + 1]]]
TPF(fs) == [time |-> Len(fs), flux |-> Cube(fs), shape |-> Cube(fs).shape]
TPFs == UNION {{TPF(fs) : fs \in [1..n -> FramePixels]} : n \in 0..MaxFrames}

\* parameter vectors (flux, centroid_col, centroid_row) and uncertainty vectors
ParamSet == {<<2, 5, 9>>, <<2, 8, 10>>, <<0, 8, 9>>}
UncSet == {<<1, 1, 1>>, <<2, 1, 3>>}

\* lines 81-85, initial_guesses is None: get_inital_guesses is not defined
DoPhotometryNoGuesses(tp) ==
    /\ ph_pc = "idle"
    /\ tpf' = tp
    /\ supplied' = <<>>
    /\ ph_pc' = "raised"
    /\ ph_exc' = "NameError"
    /\ UNCHANGED <<initial_guesses, t, opt_params, residuals, uncertainties, fits>>

\* lines 81-87, initial_guesses given: the loop is entered
DoPhotometry(tp, ig) ==
    /\ ph_pc = "idle"
    /\ tpf' = tp
    /\ supplied' = ig
    /\ initial_guesses' = ig
    /\ t' = 0
    /\ ph_pc' = "loop"
    /\ UNCHANGED <<ph_exc, opt_params, residuals, uncertainties, fits>>

\* a pass of the loop that seeds every frame with the same guesses
FitConvergesCold(x, u) ==
    /\ ph_pc = "loop"
    /\ t < tpf.time
    /\ fits' = Append(fits, [frame |-> t, seed |-> initial_guesses])
    /\ opt_params' = Append(opt_params, x)
    /\ residuals' = Append(residuals, Minus(tpf.flux, PhotModel(x)))
    /\ uncertainties' = Append(uncertainties, u)
    /\ t' = t + 1
    /\ UNCHANGED <<ph_pc, ph_exc, tpf, supplied, initial_guesses>>

\* lines 88-94: one pass of the loop; logL.fit returns x, logL.uncertainties() u
FitConverges(x, u) ==
    /\ ph_pc = "loop"
    /\ t < tpf.time
    /\ fits' = Append(fits, [frame |-> t, seed |-> initial_guesses])
    /\ initial_guesses' = x
    /\ opt_params' = Append(opt_params, x)
    /\ residuals' = Append(residuals, Minus(tpf.flux, PhotModel(x)))
    /\ uncertainties' = Append(uncertainties, u)
    /\ t' = t + 1
    /\ UNCHANGED <<ph_pc, ph_exc, tpf, supplied>>

\* a failure that leaves the seed behind as the frame's parameters
FitFailsRecorded ==
    /\ ph_pc = "loop"
    /\ t < tpf.time
    /\ fits' = Append(fits, [frame |-> t, seed |-> initial_guesses])
    /\ opt_params' = Append(opt_params, initial_guesses)
    /\ ph_pc' = "raised"
    /\ ph_exc' = "ConvergenceFailure"
    /\ UNCHANGED <<tpf, supplied, initial_guesses, t, residuals, uncertainties>>

\* lines 88-89: logL.fit raises; nothing in do_photometry catches it
FitFails ==
    /\ ph_pc = "loop"
    /\ t < tpf.time
    /\ fits' = Append(fits, [frame |-> t, seed |-> initial_guesses])
    /\ ph_pc' = "raised"
    /\ ph_exc' = "ConvergenceFailure"
    /\ UNCHANGED <<tpf, supplied, initial_guesses, t, opt_params, residuals, uncertainties>>

\* line 96 after the loop: self.opt_params is a list, which has no reshape
Reshape ==
    /\ ph_pc = "loop"
    /\ t = tpf.time
    /\ ph_pc' = "raised"
    /\ ph_exc' = "AttributeError"
    /\ UNCHANGED <<tpf, supplied, initial_guesses, t, opt_params, residuals, uncertainties, fits>>

Call ==
    /\ ph_pc = "idle"
    /\ \E tp \in TPFs :
        \/ DoPhotometryNoGuesses(tp)
        \/ \E ig \in ParamSet : DoPhotometry(tp, ig)

Fit ==
    /\ ph_pc = "loop"
    /\ \/ \E x \in ParamSet, u \in UncSet : FitConverges(x, u)
       \/ FitFails

Init == PRFIdle /\ CallsIdle /\ PhIdle

Next ==
    \/ Call /\ UNCHANGED prf_vars /\ UNCHANGED call_vars
    \/ Fit /\ UNCHANGED prf_vars /\ UNCHANGED call_vars
    \/ Reshape /\ UNCHANGED prf_vars /\ UNCHANGED call_vars

Spec == Init /\ [][Next]_vars

\* ---------------------------------------------------- claims: do_photometry
\* C1: frames are fitted in increasing order 0, 1, 2, ...; the fit of frame 0
\* is seeded with the supplied initial guesses and the fit of every later
\* frame with the vector the fit of the frame before it returned.
C1_WarmStartChain ==
    \A k \in 1..Len(fits) :
        /\ fits[k].frame = k - 1
        /\ k = 1 => fits[k].seed = supplied
        /\ k > 1 => fits[k].seed = opt_params[k - 1]

C1_Witness ==
    /\ Len(fits) >= 2
    /\ fits[2].seed # supplied
    /\ Len(opt_params) >= 2
    /\ opt_params[2] # opt_params[1]

\* C2: the residual recorded for frame t is the observed pixels of frame t
\* minus the model at the parameters fitted for frame t, an array of the
\* shape of one frame.
C2_ResidualIsFrameMinusModel ==
    \A k \in 1..Len(residuals) :
        residuals[k] = Minus(Frame(tpf.flux, k - 1), PhotModel(opt_params[k]))

Ended == ph_pc \in {"returned", "raised"}

\* C3: run with supplied initial guesses on T frames whose fits all converge,
\* do_photometry returns normally and leaves three sequences of length T.
C3_ReturnsWithParallelSequences ==
    (Ended /\ supplied # <<>> /\ ph_exc # "ConvergenceFailure") =>
        /\ ph_pc = "returned"
        /\ ph_exc = ""
        /\ Len(opt_params) = tpf.time
        /\ Len(residuals) = tpf.time
        /\ Len(uncertainties) = tpf.time

C4_FailureState ==
    ph_exc = "ConvergenceFailure" =>
        /\ ph_pc = "raised"
        /\ Len(opt_params) = t /\ Len(residuals) = t /\ Len(uncertainties) = t
        /\ Len(fits) = t + 1
        /\ fits[t + 1].frame = t

C4_FailureStep ==
    ph_exc' = "ConvergenceFailure" =>
        /\ opt_params' = opt_params
        /\ residuals' = residuals
        /\ uncertainties' = uncertainties
        /\ Len(fits') <= Len(fits) + 1

\* C4: when the fit of frame t fails, the failure leaves do_photometry at
\* once (the frame is fitted once, not again), and the entries recorded for
\* frames 0..t-1 stay as they were, t of them in each of the three sequences.
C4_FailurePropagates == [](C4_FailureState) /\ [][C4_FailureStep]_vars

C4_Witness ==
    /\ ph_exc = "ConvergenceFailure"
    /\ ph_pc = "raised"
    /\ t = 1
    /\ Len(opt_params) = 1 /\ Len(residuals) = 1 /\ Len(uncertainties) = 1

====
